---- MODULE Spec2Model ----
(***************************************************************************)
(* Model of the Paul Allen agent repository: the offline ingestion script  *)
(* (src/data_ingest/ingest.py), the route table (src/router.py) and the    *)
(* chat session handlers (src/app.py).  The vector store, the embedding    *)
(* service, the semantic router and the agent are external services: their *)
(* answers are nondeterministic choices, and every call to them is logged  *)
(* in `calls`.                                                             *)
(***************************************************************************)
EXTENDS Integers, Sequences, FiniteSets, TLC

VARIABLES
    \* ---- process environment (both entry points) ----
    env,              \* names of the environment variables holding a non-empty value
    dim_raw,          \* the text of EMBEDDING_DIM when it is set
    calls,            \* remote calls issued by the running entry point, in order
    \* ---- ingest.py main() ----
    ipc,              \* position of main()
    file_exists,      \* os.path.exists(input_file)
    doc_chunks,       \* number of chunks the splitter cuts the input file into
    embedding_dim,    \* main()'s local embedding_dim
    pinecone,         \* the remote index of the configured name
    pinecone0,        \* the remote index as it was before the first run
    nodes,            \* embedded nodes waiting to be upserted
    run,              \* number of the current run of the script
    exit_status,      \* exit status of the last finished run (-1 while running)
    done,             \* one record per completed run: chunk count and dimension
    \* ---- app.py ----
    app,              \* module import: "init", "running" or "import_failed"
    router_defined,   \* 'router_layer' in globals()
    cpc,              \* position of the session's current handler
    ui,               \* outbound UI messages of the session, as displayed
    agent,            \* cl.user_session "agent": TRUE when set
    author_name,      \* cl.user_session "author_name": TRUE when set
    error,            \* the exception being handled or last raised
    outcome,          \* how the last finished handler invocation ended
    base,             \* Len(ui) when the current handler invocation began
    nmsgs,            \* user messages received so far
    route_result,     \* on_message's route_result.name
    touched,          \* on_message has read the session's agent
    emitted,          \* fragments the agent's generator has yielded
    streamed,         \* arguments of the msg.stream_token calls
    response_text     \* on_message's accumulated response_text

envvars == <<env, dim_raw, calls>>
ingestvars == <<ipc, file_exists, doc_chunks, embedding_dim, pinecone, pinecone0,
                nodes, run, exit_status, done>>
chatvars == <<app, router_defined, cpc, ui, agent, author_name, error, outcome,
              base, nmsgs, route_result, touched, emitted, streamed, response_text>>
vars == <<envvars, ingestvars, chatvars>>

----------------------------------------------------------------------------
(* Bounds *)

MaxChunks == 2
MaxRuns == 2
MaxMessages == 2
MaxFragments == 2

----------------------------------------------------------------------------
(* Environment variables *)

EnvNames == {"PINECONE_INDEX_NAME", "PINECONE_API_KEY", "PINECONE_REGION",
             "PINECONE_CLOUD", "OPENAI_API_KEY", "EMBEDDING_DIM"}

\* Sample texts of EMBEDDING_DIM: empty, not a number, and two numbers.
DimTexts == {<<>>, <<"x">>, <<"2">>, <<"1", "2">>}

DigitValue == [c \in {"0", "1", "2", "4"} |->
                 CASE c = "0" -> 0 [] c = "1" -> 1 [] c = "2" -> 2 [] c = "4" -> 4]

\* int(s) succeeds: a non-empty run of digits.
IsInt(s) == Len(s) > 0 /\ \A k \in 1..Len(s) : s[k] \in DOMAIN DigitValue

RECURSIVE ParseInt(_)
ParseInt(s) ==
    IF Len(s) = 0 THEN 0
    ELSE 10 * ParseInt(SubSeq(s, 1, Len(s) - 1)) + DigitValue[s[Len(s)]]

DefaultEmbeddingDimText == <<"1", "0", "2", "4">>
FallbackEmbeddingDim == 1024

\* os.getenv("EMBEDDING_DIM", "1024")
GetEmbeddingDimText == IF "EMBEDDING_DIM" \in env THEN dim_raw ELSE DefaultEmbeddingDimText

\* try: int(...) except (ValueError, TypeError): 1024
LoadEmbeddingDim ==
    IF IsInt(GetEmbeddingDimText) THEN ParseInt(GetEmbeddingDimText)
    ELSE FallbackEmbeddingDim

----------------------------------------------------------------------------
(* ingest.py: the remote index and the pure parts of main() *)

NoIndex == [exists |-> FALSE, dim |-> 0, vecs |-> {}]

\* A record of the index: an opaque id, the chunk it embeds, its dimensionality.
\* Node ids are fresh in every run of the script.
Vector(r, i, d) == [id |-> <<r, i>>, chunk |-> i, dim |-> d]

\* The states the remote store can be in before a run: no index of the
\* configured name, or one with arbitrary prior contents.
PriorIndexes ==
    {NoIndex} \cup
    {[exists |-> TRUE, dim |-> d, vecs |-> {Vector(0, k, d) : k \in S}] :
        d \in {2, FallbackEmbeddingDim}, S \in SUBSET (1..MaxChunks)}

\* if not all([pinecone_index_name, pinecone_api_key, openai_api_key])
IngestConfigValid ==
    {"PINECONE_INDEX_NAME", "PINECONE_API_KEY", "OPENAI_API_KEY"} \subseteq env

\* Variant of InputFileExists: the existence check is left out.
InputFileNotChecked == TRUE

\* os.path.exists(input_file)
InputFileExists == file_exists

\* pinecone_index_name in pc.list_indexes().names()
IndexListed == pinecone.exists

\* ServerlessSpec(cloud=pinecone_cloud, region=pinecone_region): the service
\* creates an index only for a named cloud and region.
ServerlessSpecValid == {"PINECONE_CLOUD", "PINECONE_REGION"} \subseteq env

\* pc.delete_index(name)
DeleteIndex == NoIndex

\* pc.create_index(name, dimension=embedding_dim, metric="cosine", spec=...)
CreateIndex(d) == [exists |-> TRUE, dim |-> d, vecs |-> {}]

\* Chunking and embedding of the loaded documents: one node per chunk, each
\* embedded at `dimensions=embedding_dim`.
EmbedNodes == [i \in 1..doc_chunks |-> Vector(run, i, embedding_dim)]

\* Variant of Upsert: each write replaces the contents instead of adding to them.
UpsertKeepsOnlyLast(idx, v) == [idx EXCEPT !.vecs = {v}]

\* The vector store's upsert of one node: keyed by id.
Upsert(idx, v) == [idx EXCEPT !.vecs = {w \in @ : w.id # v.id} \cup {v}]

Call(op) == calls' = Append(calls, op)

----------------------------------------------------------------------------
(* ingest.py: main(), one action per step *)

\* lines 43-71: read the environment, parse EMBEDDING_DIM, validate.
IngestConfig ==
    /\ ipc = "start"
    /\ embedding_dim' = LoadEmbeddingDim
    /\ IF IngestConfigValid
       THEN ipc' = "check_file" /\ exit_status' = exit_status
       ELSE ipc' = "failed" /\ exit_status' = 1
    /\ UNCHANGED <<envvars, chatvars, file_exists, doc_chunks, pinecone, pinecone0,
                   nodes, run, done>>

\* lines 74-76: sys.exit(1) when the input file is missing.
IngestCheckFile ==
    /\ ipc = "check_file"
    /\ IF InputFileExists
       THEN ipc' = "load" /\ exit_status' = exit_status
       ELSE ipc' = "exited" /\ exit_status' = 1
    /\ UNCHANGED <<envvars, chatvars, file_exists, doc_chunks, embedding_dim, pinecone,
                   pinecone0, nodes, run, done>>

\* lines 78-85: load the documents, create the (local) Pinecone client.
IngestLoad ==
    /\ ipc = "load"
    /\ ipc' = "list"
    /\ UNCHANGED <<envvars, chatvars, file_exists, doc_chunks, embedding_dim, pinecone,
                   pinecone0, nodes, run, exit_status, done>>

\* line 88: pc.list_indexes()
IngestListIndexes ==
    /\ ipc = "list"
    /\ Call("list_indexes")
    /\ ipc' = IF IndexListed THEN "delete" ELSE "create"
    /\ UNCHANGED <<env, dim_raw, chatvars, file_exists, doc_chunks, embedding_dim,
                   pinecone, pinecone0, nodes, run, exit_status, done>>

\* lines 89-90: pc.delete_index(name)
IngestDeleteIndex ==
    /\ ipc = "delete"
    /\ Call("delete_index")
    /\ pinecone' = DeleteIndex
    /\ ipc' = "create"
    /\ UNCHANGED <<env, dim_raw, chatvars, file_exists, doc_chunks, embedding_dim,
                   pinecone0, nodes, run, exit_status, done>>

\* lines 93-102: pc.create_index(...)
IngestCreateIndex ==
    /\ ipc = "create"
    /\ ServerlessSpecValid
    /\ ~pinecone.exists
    /\ Call("create_index")
    /\ pinecone' = CreateIndex(embedding_dim)
    /\ ipc' = "connect"
    /\ UNCHANGED <<env, dim_raw, chatvars, file_exists, doc_chunks, embedding_dim,
                   pinecone0, nodes, run, exit_status, done>>

\* line 103: pc.Index(name)
IngestConnect ==
    /\ ipc = "connect"
    /\ Call("Index")
    /\ ipc' = "embed"
    /\ UNCHANGED <<env, dim_raw, chatvars, file_exists, doc_chunks, embedding_dim,
                   pinecone, pinecone0, nodes, run, exit_status, done>>

\* lines 107-124: VectorStoreIndex.from_documents chunks and embeds the documents.
IngestEmbed ==
    /\ ipc = "embed"
    /\ IF doc_chunks > 0 THEN Call("embed") ELSE calls' = calls
    /\ nodes' = EmbedNodes
    /\ ipc' = "upsert"
    /\ UNCHANGED <<env, dim_raw, chatvars, file_exists, doc_chunks, embedding_dim,
                   pinecone, pinecone0, run, exit_status, done>>

\* lines 120-124: ... and upserts every node into the vector store.
IngestUpsert ==
    /\ ipc = "upsert"
    /\ nodes # <<>>
    /\ Call("upsert")
    /\ pinecone' = Upsert(pinecone, Head(nodes))
    /\ nodes' = Tail(nodes)
    /\ UNCHANGED <<env, dim_raw, chatvars, ipc, file_exists, doc_chunks, embedding_dim,
                   pinecone0, run, exit_status, done>>

\* lines 126-127: the run completes.
IngestComplete ==
    /\ ipc = "upsert"
    /\ nodes = <<>>
    /\ ipc' = "complete"
    /\ exit_status' = 0
    /\ done' = Append(done, [count |-> Cardinality(pinecone.vecs), dim |-> pinecone.dim])
    /\ UNCHANGED <<envvars, chatvars, file_exists, doc_chunks, embedding_dim, pinecone,
                   pinecone0, nodes, run>>

\* The remote call a step of main() issues.
RemoteOp ==
    [p \in {"list", "delete", "create", "connect", "embed", "upsert"} |->
        CASE p = "list" -> "list_indexes"
          [] p = "delete" -> "delete_index"
          [] p = "create" -> "create_index"
          [] p = "connect" -> "Index"
          [] p = "embed" -> "embed"
          [] p = "upsert" -> "upsert"]

\* No retry anywhere: a remote call that fails raises out of main().
IngestRemoteFails ==
    /\ ipc \in DOMAIN RemoteOp
    /\ ipc = "embed" => doc_chunks > 0
    /\ ipc = "upsert" => nodes # <<>>
    /\ Call(RemoteOp[ipc])
    /\ ipc' = "aborted"
    /\ exit_status' = 1
    /\ UNCHANGED <<env, dim_raw, chatvars, file_exists, doc_chunks, embedding_dim,
                   pinecone, pinecone0, nodes, run, done>>

\* The script is run again with the same input and configuration.
IngestRerun ==
    /\ ipc \in {"failed", "exited", "aborted", "complete"}
    /\ run < MaxRuns
    /\ run' = run + 1
    /\ ipc' = "start"
    /\ calls' = <<>>
    /\ nodes' = <<>>
    /\ exit_status' = -1
    /\ embedding_dim' = 0
    /\ UNCHANGED <<env, dim_raw, chatvars, file_exists, doc_chunks, pinecone, pinecone0,
                   done>>

IngestNext ==
    \/ IngestConfig
    \/ IngestCheckFile
    \/ IngestLoad
    \/ IngestListIndexes
    \/ IngestDeleteIndex
    \/ IngestCreateIndex
    \/ IngestConnect
    \/ IngestEmbed
    \/ IngestUpsert
    \/ IngestComplete
    \/ IngestRemoteFails
    \/ IngestRerun

----------------------------------------------------------------------------
(* router.py and app.py: routes, messages and the pure parts of the handlers *)

\* router.py: the names of the routes the router is built from.
allowed_routes == <<"paul_allen_questions", "greetings", "farewells", "gratitude">>

\* The router's answers: the name of one of its routes, or no match (name None).
NoMatch == "None"
RouteOutcomes == {allowed_routes[k] : k \in DOMAIN allowed_routes} \cup {NoMatch}

\* app.py line 145
allowed_route_names == {"paul_allen_questions", "greetings", "farewells", "gratitude"}

\* Variant of IsAllowedRoute: every classification is let through.
RouteCheckDropped(name) == TRUE

\* line 147, negated: route_result.name in allowed_route_names
IsAllowedRoute(name) == name \in allowed_route_names

\* A displayed message: its text (a sequence of pieces), its attached element
\* and whether it was only sent, is being streamed into, or was updated.
Msg(content, element) == [content |-> content, element |-> element, state |-> "sent"]

\* Variant of IntroMessages: the image is sent before the header.
IntroMessagesImageFirst ==
    << Msg(<<>>, "image1"),
       Msg(<<>>, "Paul Allen Archives"),
       Msg(<<"Hello! Please ask me anything about Microsoft's co-founder - Paul Allen, his life, career, or interests. I am here to help!">>, "none") >>

\* lines 78-93: the three messages on_chat_start sends first.
IntroMessages ==
    << Msg(<<>>, "Paul Allen Archives"),
       Msg(<<>>, "image1"),
       Msg(<<"Hello! Please ask me anything about Microsoft's co-founder - Paul Allen, his life, career, or interests. I am here to help!">>, "none") >>

\* line 130
SetupErrorMessage(e) == Msg(<<"Sorry, an error occurred during setup: ", e>>, "none")
\* line 141
RouterUninitMessage ==
    Msg(<<"Semantic Router is not initialized. Please check server logs.">>, "none")
\* lines 149-151
RefusalMessage ==
    Msg(<<"I apologize, but I am an AI agent designed specifically to answer questions about Paul Allen. I cannot assist with other topics.">>, "none")
\* line 157
AgentUnavailableMessage == Msg(<<"Sorry, the agent is not available.">>, "none")

\* line 100: if not pinecone_api_key or not pinecone_region
ChatConfigValid == {"PINECONE_API_KEY", "PINECONE_REGION"} \subseteq env

\* Variant of AgentUnset: the handler does not test the agent.
AgentCheckDropped == FALSE

\* line 156: if not agent
AgentUnset == ~agent

\* Text fragments the agent's generator may yield.
Fragments == {<<"a">>, <<"b", "c">>}

\* Variant of Accumulate: the fragment is put in front of the text.
AccumulatePrepends(text, token) == token \o text

\* line 168: response_text += token
Accumulate(text, token) == text \o token

\* The UI messages the current handler invocation has sent.
reply == SubSeq(ui, base + 1, Len(ui))

----------------------------------------------------------------------------
(* app.py: module import *)

\* lines 31-60: read the environment, require OPENAI_API_KEY, build the router
\* inside try/except (on failure router_layer stays undefined).
AppImport ==
    /\ app = "init"
    /\ embedding_dim' = LoadEmbeddingDim
    /\ IF "OPENAI_API_KEY" \in env
       THEN app' = "running" /\ router_defined' \in BOOLEAN
       ELSE app' = "import_failed" /\ router_defined' = FALSE
    /\ UNCHANGED <<envvars, ipc, file_exists, doc_chunks, pinecone, pinecone0, nodes,
                   run, exit_status, done, cpc, ui, agent, author_name, error, outcome,
                   base, nmsgs, route_result, touched, emitted, streamed, response_text>>

----------------------------------------------------------------------------
(* app.py: on_chat_start *)

msgvars == <<nmsgs, route_result, touched, emitted, streamed, response_text>>

\* lines 70-82: set author_name, send the header message.
OnChatStartHeader ==
    /\ app = "running"
    /\ cpc = "uninitialized"
    /\ author_name' = TRUE
    /\ base' = Len(ui)
    /\ ui' = Append(ui, IntroMessages[1])
    /\ cpc' = "intro_image"
    /\ UNCHANGED <<envvars, ingestvars, app, router_defined, agent, error, outcome,
                   msgvars>>

\* lines 84-88: send the image message.
OnChatStartImage ==
    /\ cpc = "intro_image"
    /\ ui' = Append(ui, IntroMessages[2])
    /\ cpc' = "intro_welcome"
    /\ UNCHANGED <<envvars, ingestvars, app, router_defined, agent, author_name, error,
                   outcome, base, msgvars>>

\* lines 90-93: send the welcome message.
OnChatStartWelcome ==
    /\ cpc = "intro_welcome"
    /\ ui' = Append(ui, IntroMessages[3])
    /\ cpc' = "setup"
    /\ UNCHANGED <<envvars, ingestvars, app, router_defined, agent, author_name, error,
                   outcome, base, msgvars>>

\* lines 95-103: enter the try block, require PINECONE_API_KEY and
\* PINECONE_REGION, create the (local) Pinecone client.
OnChatStartConfig ==
    /\ cpc = "setup"
    /\ IF ChatConfigValid
       THEN cpc' = "connect" /\ error' = error
       ELSE /\ cpc' = "except"
            /\ error' = "PINECONE_API_KEY or PINECONE_ENVIRONMENT not found in .env file."
    /\ UNCHANGED <<envvars, ingestvars, app, router_defined, ui, agent, author_name,
                   outcome, base, msgvars>>

\* line 104: pc.Index(pinecone_index_name)
OnChatStartConnect ==
    /\ cpc = "connect"
    /\ "PINECONE_INDEX_NAME" \in env
    /\ Call("Index")
    /\ cpc' = "build"
    /\ UNCHANGED <<env, dim_raw, ingestvars, app, router_defined, ui, agent, author_name,
                   error, outcome, base, msgvars>>

\* lines 105-126: build the query engine, the tool and the agent; store the agent.
OnChatStartBuild ==
    /\ cpc = "build"
    /\ agent' = TRUE
    /\ outcome' = "agent_ready"
    /\ cpc' = "ready"
    /\ UNCHANGED <<envvars, ingestvars, app, router_defined, ui, author_name, error,
                   base, msgvars>>

\* lines 103-123: any of the calls in the try block raises.
OnChatStartFails ==
    /\ cpc \in {"connect", "build"}
    /\ IF cpc = "connect" THEN Call("Index") ELSE calls' = calls
    /\ error' = IF cpc = "connect" THEN "pinecone error" ELSE "agent error"
    /\ cpc' = "except"
    /\ UNCHANGED <<env, dim_raw, ingestvars, app, router_defined, ui, agent, author_name,
                   outcome, base, msgvars>>

\* lines 128-130: except Exception: send the apology.
OnChatStartExcept ==
    /\ cpc = "except"
    /\ ui' = Append(ui, SetupErrorMessage(error))
    /\ outcome' = "setup_failed"
    /\ cpc' = "ready"
    /\ UNCHANGED <<envvars, ingestvars, app, router_defined, agent, author_name, error,
                   base, msgvars>>

----------------------------------------------------------------------------
(* app.py: on_message.  The UI framework hands the session one message at a *)
(* time: a message is taken when the session is ready.                      *)

\* lines 134-142: a message arrives; without a router, say so and return.
OnMessageStart ==
    /\ cpc = "ready"
    /\ nmsgs < MaxMessages
    /\ nmsgs' = nmsgs + 1
    /\ base' = Len(ui)
    /\ route_result' = "unrouted"
    /\ touched' = FALSE
    /\ emitted' = <<>>
    /\ streamed' = <<>>
    /\ response_text' = <<>>
    /\ error' = "none"
    /\ IF router_defined
       THEN cpc' = "route" /\ ui' = ui /\ outcome' = "handling"
       ELSE cpc' = "ready" /\ ui' = Append(ui, RouterUninitMessage)
            /\ outcome' = "router_uninit"
    /\ UNCHANGED <<envvars, ingestvars, app, router_defined, agent, author_name>>

\* lines 144-152: classify the message; refuse it unless its route is allowed.
OnMessageRoute ==
    /\ cpc = "route"
    /\ Call("router_layer")
    /\ \E r \in RouteOutcomes :
        /\ route_result' = r
        /\ IF IsAllowedRoute(r)
           THEN cpc' = "get_agent" /\ ui' = ui /\ outcome' = outcome
           ELSE cpc' = "ready" /\ ui' = Append(ui, RefusalMessage)
                /\ outcome' = "refused"
    /\ UNCHANGED <<env, dim_raw, ingestvars, app, router_defined, agent, author_name,
                   error, base, nmsgs, touched, emitted, streamed, response_text>>

\* line 144: the router's call raises; nothing in on_message catches it.
OnMessageRouteFails ==
    /\ cpc = "route"
    /\ Call("router_layer")
    /\ error' = "router_layer"
    /\ outcome' = "raised"
    /\ cpc' = "ready"
    /\ UNCHANGED <<env, dim_raw, ingestvars, app, router_defined, ui, agent, author_name,
                   base, msgvars>>

\* lines 155-158: read the session's agent; without one, say so and return.
OnMessageGetAgent ==
    /\ cpc = "get_agent"
    /\ touched' = TRUE
    /\ IF AgentUnset
       THEN cpc' = "ready" /\ ui' = Append(ui, AgentUnavailableMessage)
            /\ outcome' = "unavailable"
       ELSE cpc' = "stream_chat" /\ ui' = ui /\ outcome' = outcome
    /\ UNCHANGED <<envvars, ingestvars, app, router_defined, agent, author_name, error,
                   base, nmsgs, route_result, emitted, streamed, response_text>>

\* line 160: agent.stream_chat(message.content) returns the response stream.
OnMessageStreamChat ==
    /\ cpc = "stream_chat"
    /\ agent
    /\ Call("stream_chat")
    /\ cpc' = "send_msg"
    /\ UNCHANGED <<env, dim_raw, ingestvars, app, router_defined, ui, agent, author_name,
                   error, outcome, base, msgvars>>

\* line 160: agent.stream_chat raises (the remote call fails, or there is no
\* agent to call); nothing in on_message catches it.
OnMessageStreamChatFails ==
    /\ cpc = "stream_chat"
    /\ IF agent THEN Call("stream_chat") ELSE calls' = calls
    /\ error' = "stream_chat"
    /\ outcome' = "raised"
    /\ cpc' = "ready"
    /\ UNCHANGED <<env, dim_raw, ingestvars, app, router_defined, ui, agent, author_name,
                   base, msgvars>>

\* lines 162-166: send the empty message the answer is streamed into.
OnMessageSendMsg ==
    /\ cpc = "send_msg"
    /\ ui' = Append(ui, Msg(<<>>, "none"))
    /\ cpc' = "streaming"
    /\ UNCHANGED <<envvars, ingestvars, app, router_defined, agent, author_name, error,
                   outcome, base, msgvars>>

\* lines 167-169: the generator yields a fragment; accumulate it and push it
\* to the UI, which appends it to the displayed message.
OnMessageToken ==
    /\ cpc = "streaming"
    /\ Len(emitted) < MaxFragments
    /\ \E token \in Fragments :
        /\ emitted' = Append(emitted, token)
        /\ response_text' = Accumulate(response_text, token)
        /\ streamed' = Append(streamed, token)
        /\ ui' = [ui EXCEPT ![Len(ui)] =
                    [@ EXCEPT !.content = @ \o token, !.state = "streaming"]]
    /\ UNCHANGED <<envvars, ingestvars, app, router_defined, cpc, agent, author_name,
                   error, outcome, base, nmsgs, route_result, touched>>

\* line 167: the generator raises; nothing in on_message catches it.
OnMessageTokenFails ==
    /\ cpc = "streaming"
    /\ error' = "response_gen"
    /\ outcome' = "raised"
    /\ cpc' = "ready"
    /\ UNCHANGED <<envvars, ingestvars, app, router_defined, ui, agent, author_name,
                   base, msgvars>>

\* lines 171-172: the generator is exhausted; set the content and update.
OnMessageFinalize ==
    /\ cpc = "streaming"
    /\ ui' = [ui EXCEPT ![Len(ui)] =
                [@ EXCEPT !.content = response_text, !.state = "updated"]]
    /\ outcome' = "answered"
    /\ cpc' = "ready"
    /\ UNCHANGED <<envvars, ingestvars, app, router_defined, agent, author_name, error,
                   base, msgvars>>

ChatNext ==
    \/ AppImport
    \/ OnChatStartHeader
    \/ OnChatStartImage
    \/ OnChatStartWelcome
    \/ OnChatStartConfig
    \/ OnChatStartConnect
    \/ OnChatStartBuild
    \/ OnChatStartFails
    \/ OnChatStartExcept
    \/ OnMessageStart
    \/ OnMessageRoute
    \/ OnMessageRouteFails
    \/ OnMessageGetAgent
    \/ OnMessageStreamChat
    \/ OnMessageStreamChatFails
    \/ OnMessageSendMsg
    \/ OnMessageToken
    \/ OnMessageTokenFails
    \/ OnMessageFinalize

----------------------------------------------------------------------------
(* Initial states *)

EnvInit ==
    /\ env \in SUBSET EnvNames
    /\ dim_raw \in (IF "EMBEDDING_DIM" \in env THEN DimTexts ELSE {<<>>})
    /\ calls = <<>>

IngestIdle ==
    /\ ipc = "start"
    /\ embedding_dim = 0
    /\ nodes = <<>>
    /\ run = 1
    /\ exit_status = -1
    /\ done = <<>>

ChatIdle ==
    /\ app = "init"
    /\ router_defined = FALSE
    /\ cpc = "uninitialized"
    /\ ui = <<>>
    /\ agent = FALSE
    /\ author_name = FALSE
    /\ error = "none"
    /\ outcome = "none"
    /\ base = 0
    /\ nmsgs = 0
    /\ route_result = "unrouted"
    /\ touched = FALSE
    /\ emitted = <<>>
    /\ streamed = <<>>
    /\ response_text = <<>>

InitIngest ==
    /\ EnvInit
    /\ IngestIdle
    /\ file_exists \in BOOLEAN
    /\ doc_chunks \in (IF file_exists THEN 0..MaxChunks ELSE {0})
    /\ pinecone \in PriorIndexes
    /\ pinecone0 = pinecone
    /\ ChatIdle

SpecIngest == InitIngest /\ [][IngestNext]_vars

InitChat ==
    /\ EnvInit
    /\ ChatIdle
    /\ IngestIdle
    /\ file_exists = FALSE
    /\ doc_chunks = 0
    /\ pinecone = NoIndex
    /\ pinecone0 = NoIndex

SpecChat == InitChat /\ [][ChatNext]_vars

----------------------------------------------------------------------------
(* Properties *)

RECURSIVE Concat(_)
\* The concatenation of a sequence of fragments, in order.
Concat(fs) == IF fs = <<>> THEN <<>> ELSE Head(fs) \o Concat(Tail(fs))

RequiredIngest == {"PINECONE_INDEX_NAME", "PINECONE_API_KEY", "PINECONE_REGION",
                   "PINECONE_CLOUD", "OPENAI_API_KEY"}
RequiredChat == {"PINECONE_INDEX_NAME", "PINECONE_API_KEY", "PINECONE_REGION",
                 "OPENAI_API_KEY"}
FourRoutes == {"paul_allen_questions", "greetings", "farewells", "gratitude"}

\* C1: whenever a required environment variable is unset, the entry point that
\* has started has issued no remote call.
C1_NoRemoteCallWhenEnvMissing ==
    /\ (ipc # "start" /\ RequiredIngest \ env # {}) => calls = <<>>
    /\ (app # "init" /\ RequiredChat \ env # {}) => calls = <<>>

\* C2: no error of agent construction or of answer streaming ends a handler
\* by escaping it.
C2_NoErrorEscapesHandler ==
    outcome = "raised" =>
        error \notin {"pinecone error", "agent error", "stream_chat", "response_gen"}

C5_IngestionIdempotent ==
    ipc = "complete" =>
        /\ pinecone.exists
        /\ pinecone.dim = LoadEmbeddingDim
        /\ pinecone.vecs = {Vector(run, i, LoadEmbeddingDim) : i \in 1..doc_chunks}
        /\ Cardinality(pinecone.vecs) = doc_chunks
        /\ \A k \in 1..Len(done) :
              done[k].count = doc_chunks /\ done[k].dim = pinecone.dim

C5_Witness ==
    /\ ipc = "complete"
    /\ Len(done) = 2
    /\ doc_chunks = 2
    /\ pinecone0.exists
    /\ pinecone0.vecs # {}
    /\ pinecone0.dim # pinecone.dim

\* C6: when the input file does not exist the run issues no remote call, leaves
\* the remote index as it was, never gets past the existence check, and ends
\* with a nonzero exit status.
C6_MissingFileNoRemoteCalls ==
    ~file_exists =>
        /\ calls = <<>>
        /\ pinecone = pinecone0
        /\ ipc \in {"start", "check_file", "failed", "exited"}
        /\ exit_status # 0
        /\ ipc \in {"failed", "exited"} => exit_status = 1

C6_Witness ==
    /\ ~file_exists
    /\ IngestConfigValid
    /\ ipc = "exited"
    /\ exit_status = 1
    /\ pinecone.exists
    /\ run = 2

\* C8: when an answer is finalized, the displayed message holds the
\* concatenation, in emission order, of the fragments the generator yielded,
\* each of which was pushed to the UI once and in the same order.
C8_FinalContentIsConcatenation ==
    /\ (cpc = "ready" /\ outcome = "answered") =>
          /\ Len(reply) = 1
          /\ ui[Len(ui)].state = "updated"
          /\ ui[Len(ui)].content = Concat(emitted)
          /\ streamed = emitted
    /\ cpc = "streaming" =>
          /\ streamed = emitted
          /\ response_text = Concat(emitted)
          /\ ui[Len(ui)].content = Concat(streamed)

C8_Witness ==
    /\ cpc = "ready"
    /\ outcome = "answered"
    /\ emitted = << <<"a">>, <<"b", "c">> >>
    /\ ui[Len(ui)].content = <<"a", "b", "c">>

\* C9: the session's first three UI messages are the header, the image and
\* the welcome text, in that order and each once; they are out before agent
\* construction is attempted and before any user message is handled, whether
\* construction succeeds or fails.
C9_IntroBeforeSetup ==
    LET IsHeader(m) == m.element = "Paul Allen Archives" /\ m.content = <<>>
        IsImage(m) == m.element = "image1" /\ m.content = <<>>
        IsWelcome(m) == m.element = "none" /\ Len(m.content) = 1
                        /\ m.content = IntroMessages[3].content
        IntroDone == /\ Len(ui) >= 3
                     /\ IsHeader(ui[1]) /\ IsImage(ui[2]) /\ IsWelcome(ui[3])
                     /\ \A k \in 4..Len(ui) :
                           ~IsHeader(ui[k]) /\ ~IsImage(ui[k]) /\ ~IsWelcome(ui[k])
    IN  /\ cpc \in {"setup", "connect", "build", "except"} => IntroDone /\ Len(ui) = 3
        /\ (agent \/ calls # <<>> \/ nmsgs > 0 \/ outcome # "none" \/ error # "none")
              => IntroDone
        /\ cpc \in {"uninitialized", "intro_image", "intro_welcome"} =>
              /\ Len(ui) < 3
              /\ ~agent /\ calls = <<>> /\ nmsgs = 0

C9_Witness ==
    /\ ~agent
    /\ outcome = "unavailable"
    /\ nmsgs = 1
    /\ Len(ui) = 5
    /\ ui[4] = SetupErrorMessage("pinecone error")

\* C10: every handler invocation that has ended has sent at least one UI
\* message.
C10_NoSilentHandler ==
    (cpc = "ready") => Len(ui) > base

====
